---- MODULE Spec2Model ----
(***************************************************************************)
(* Model of databricks.labs.ucx.framework.dashboards: DashboardFromFiles   *)
(* reconciles a tree of dashboard folders (one dashboard per second-level  *)
(* folder, one query + visualization + widget per *.sql file) against the  *)
(* remote SQL service, keeping a json state blob "ref:kind" -> remote id.  *)
(*                                                                         *)
(* A state key f"{ref}:dashboard_id" / f"{ref}_{name}:<kind>" is modelled  *)
(* as the record [g, n, kind] (n = 0 for the dashboard key); distinct      *)
(* folders and distinct file names give distinct records.                  *)
(*                                                                         *)
(* One action per step of create_dashboards; a step whose first remote     *)
(* call raises DatabricksError is the action of the same name with "Fails".*)
(* The log holds every call made on the workspace client during a run.     *)
(* Folders and files are enumerated in increasing order, the state         *)
(* dictionary in key order.  Left out: a missing warehouse in              *)
(* _dashboard_data_source, a failing upload, and magic comments that do    *)
(* not parse or widget attributes that are no integers in a                *)
(* create_dashboards run (validate is run over such files).                *)
(*                                                                         *)
(* Spec is the reconciliation with remote failures, SpecRows is validate   *)
(* and create_dashboards on one instance over files with and without an    *)
(* explicit widget row, SpecKeys is the derivation and decomposition of    *)
(* state keys as strings.                                                  *)
(***************************************************************************)
EXTENDS Integers, Sequences, FiniteSets, TLC

\* ------------------------------------------------------------------ bounds
MaxGroups == 2      \* dashboard folders that may exist on disk
MaxQueries == 2     \* *.sql files that may exist in one dashboard folder
MaxRuns == 2        \* calls of create_dashboards in one behaviour
MaxFaults == 1      \* remote failures / outside changes in one behaviour

Groups == 1..MaxGroups
Names == 1..MaxQueries

\* ------------------------------------------------------- data definitions
EmptyMap == [k \in {} |-> 0]

Put(m, k, v) == [x \in (DOMAIN m) \cup {k} |-> IF x = k THEN v ELSE m[x]]

Restrict(m, S) == [x \in (DOMAIN m) \cap S |-> m[x]]

RECURSIVE SetToSeq(_)
SetToSeq(S) ==
    IF S = {} THEN <<>>
    ELSE LET m == CHOOSE x \in S : \A y \in S : x <= y
         IN <<m>> \o SetToSeq(S \ {m})

\* The "-- viz " magic comments a file may carry: a well-formed one (a table
\* for odd file names, a counter for even ones) or one of an unknown type.
VizInputs(name) ==
    { IF name % 2 = 1
      THEN [type |-> "table", name |-> "viz", columns |-> "a,b"]
      ELSE [type |-> "counter", name |-> "viz", value_column |-> "a"],
      [type |-> "pie", name |-> "viz"] }

\* The "-- widget " magic comments a file may carry.
WidgetInputs == { EmptyMap }

SimpleQuery(ref, name, viz, widget) ==
    [dashboard_ref |-> ref, name |-> name, viz |-> viz, widget |-> widget]

dashboard_key(ref) == [g |-> ref, n |-> 0, kind |-> "dashboard_id"]
\* Mutant: the query key leaves the file name out.
query_key_NoName(q) == [g |-> q.dashboard_ref, n |-> 0, kind |-> "query_id"]
query_key(q) == [g |-> q.dashboard_ref, n |-> q.name, kind |-> "query_id"]
viz_key(q) == [g |-> q.dashboard_ref, n |-> q.name, kind |-> "viz_id"]
widget_key(q) == [g |-> q.dashboard_ref, n |-> q.name, kind |-> "widget_id"]

viz_type(q) == IF "type" \in DOMAIN q.viz THEN q.viz.type ELSE "None"

\* SimpleQuery.viz_args: the attribute names passed to the args builder.
viz_args(q) == (DOMAIN q.viz) \ {"type"}

viz_types == {"table", "counter"}

\* The parameters of _table_viz_args and _counter_viz_args.
RequiredArgs(type) ==
    IF type = "table" THEN {"name", "columns"} ELSE {"name", "value_column"}

OptionalArgs(type) ==
    IF type = "table"
    THEN {"items_per_page", "condensed", "with_row_number", "description"}
    ELSE {"description", "counter_label", "value_row_number",
          "target_row_number", "string_decimal", "string_decimal_char",
          "string_thousand_separator", "tooltip_format", "count_row"}

\* _get_viz_options: "ok" when the args are built, else the exception raised.
get_viz_options(q) ==
    IF viz_type(q) \notin viz_types THEN "SyntaxError"
    ELSE IF /\ RequiredArgs(viz_type(q)) \subseteq viz_args(q)
            /\ viz_args(q) \subseteq
                  RequiredArgs(viz_type(q)) \cup OptionalArgs(viz_type(q))
         THEN "ok"
         ELSE "TypeError"

\* _desired_queries: the files of one dashboard folder, in glob order.
DesiredQueries(ref, files) ==
    LET names == SetToSeq(DOMAIN files)
    IN [i \in 1..Len(names) |->
          SimpleQuery(ref, names[i], files[names[i]].viz, files[names[i]].widget)]

FileAttrs(name) == [viz : VizInputs(name), widget : WidgetInputs]

FolderContents ==
    UNION { { f \in [S -> UNION { FileAttrs(x) : x \in S }] :
                \A x \in S : f[x] \in FileAttrs(x) }
            : S \in SUBSET Names }

\* The local folder tree: a sequence of dashboard folders, each with its ref
\* and its files.
LocalFolders ==
    UNION { { [i \in 1..Cardinality(GS) |->
                 [ref |-> SetToSeq(GS)[i], files |-> f[SetToSeq(GS)[i]]]]
              : f \in [GS -> FolderContents] }
            : GS \in SUBSET Groups }

\* ------------------------------------------------------------------ state
VARIABLES
    _state,     \* self._state: key -> remote id
    _pos,       \* self._pos: widget position counter
    blob,       \* the state.json object in the remote folder
    remote,     \* objects of the remote SQL service
    nextId,     \* next identifier the remote service hands out
    local_folder,           \* the folder tree create_dashboards reads
    pc,         \* position of create_dashboards
    gi,         \* index of the dashboard folder being processed
    qi,         \* index of the query being processed
    dashboards,             \* local: ref -> dashboard id (the return value)
    queries_per_dashboard,  \* local: ref -> desired queries
    log,        \* remote and workspace calls issued by the current run
    last,       \* how the most recent finished run ended
    prev,       \* at the start of a run: how the run before it ended
    start,      \* at the start of a run: the blob, in-memory state and _pos
    runs,       \* create_dashboards and validate calls so far
    faults,     \* remote failures / outside changes so far
    probe       \* folder and file names whose state keys are examined

vars == << _state, _pos, blob, remote, nextId, local_folder, pc, gi, qi,
           dashboards, queries_per_dashboard, log, last, prev, start, runs,
           faults, probe >>

NoRun == [status |-> "none", at |-> "none", folders |-> <<>>,
          state |-> EmptyMap, returned |-> EmptyMap, queries |-> EmptyMap,
          log |-> <<>>, changed |-> FALSE]

Call(step, op, kind, g, n, id, res) ==
    [step |-> step, op |-> op, kind |-> kind, g |-> g, n |-> n, id |-> id,
     res |-> res]

NoProbe == [stage |-> "none"]

Init ==
    /\ _state = EmptyMap
    /\ _pos = 0
    /\ blob \in { [kind |-> "not_found", content |-> EmptyMap],
                  [kind |-> "corrupt", content |-> EmptyMap] }
    /\ remote = [dashboards |-> {}, queries |-> {}, vizs |-> {}, widgets |-> {}]
    /\ nextId = 1
    /\ local_folder = <<>>
    /\ pc = "idle"
    /\ gi = 0
    /\ qi = 0
    /\ dashboards = EmptyMap
    /\ queries_per_dashboard = EmptyMap
    /\ log = <<>>
    /\ last = NoRun
    /\ prev = NoRun
    /\ start = [blob |-> blob, state |-> EmptyMap, pos |-> 0]
    /\ runs = 0
    /\ faults = 0
    /\ probe = NoProbe

\* dashboard_link: the dashboard id the link ends in (KeyError when absent).
dashboard_link(state, ref) == state[dashboard_key(ref)]

\* ------------------------------------------------------------ run helpers
folder == local_folder[gi]
dashboard_ref == folder.ref
desired_queries == DesiredQueries(dashboard_ref, folder.files)
query == desired_queries[qi]

KindIndex(kind) ==
    CASE kind = "dashboard_id" -> 0
      [] kind = "query_id" -> 1
      [] kind = "viz_id" -> 2
      [] kind = "widget_id" -> 3

\* Iteration order of the state dictionary: by folder, file, kind.
KeyRank(k) == (k.g * (MaxQueries + 1) + k.n) * 4 + KindIndex(k.kind)

RECURSIVE KeysInOrder(_)
KeysInOrder(S) ==
    IF S = {} THEN <<>>
    ELSE LET m == CHOOSE x \in S : \A y \in S : KeyRank(x) <= KeyRank(y)
         IN <<m>> \o KeysInOrder(S \ {m})

\* How a run ends: the exception that leaves create_dashboards, or "ok".
Ended(status, at, state, calls) ==
    [status |-> status, at |-> at, folders |-> local_folder, state |-> state,
     returned |-> dashboards, queries |-> queries_per_dashboard,
     log |-> calls, changed |-> FALSE]

Raise(err, at, calls) ==
    /\ pc' = "idle"
    /\ log' = calls
    /\ last' = Ended(err, at, _state, calls)
    /\ UNCHANGED << _state, _pos, blob, remote, nextId, local_folder, gi, qi,
                    dashboards, queries_per_dashboard, prev, start, runs,
                    probe >>

\* --------------------------------------------------------------- __init__
Construct ==
    /\ pc = "idle"
    /\ runs < MaxRuns
    /\ _state' = EmptyMap
    /\ _pos' = 0
    /\ UNCHANGED << blob, remote, nextId, local_folder, pc, gi, qi, dashboards,
                    queries_per_dashboard, log, last, prev, start, runs,
                    faults, probe >>

\* Somebody removes a query in the workspace between two runs.
ExternalDelete ==
    /\ pc = "idle"
    /\ runs < MaxRuns
    /\ faults < MaxFaults
    /\ \E id \in remote.queries :
          remote' = [remote EXCEPT !.queries = @ \ {id}]
    /\ faults' = faults + 1
    /\ last' = [last EXCEPT !.changed = TRUE]
    /\ UNCHANGED << _state, _pos, blob, nextId, local_folder, pc, gi, qi,
                    dashboards, queries_per_dashboard, log, prev, start, runs,
                    probe >>

\* ------------------------------------------------------ create_dashboards
CreateDashboardsFrom(trees) ==
    /\ pc = "idle"
    /\ runs < MaxRuns
    /\ \E f \in trees :
          /\ local_folder' = f
          /\ pc' = IF Len(f) = 0 THEN "store" ELSE "load"
    /\ gi' = 1
    /\ qi' = 0
    /\ dashboards' = EmptyMap
    /\ queries_per_dashboard' = EmptyMap
    /\ log' = <<>>
    /\ prev' = last
    /\ start' = [blob |-> blob, state |-> _state, pos |-> _pos]
    /\ runs' = runs + 1
    /\ UNCHANGED << _state, _pos, blob, remote, nextId, last, faults, probe >>

CreateDashboards == CreateDashboardsFrom(LocalFolders)

\* Mutant: the sweep removes nothing.
Sweep_KeepsAll(state) == state

\* The liveness sweep of _installed_query_state: the query_id entries whose
\* queries.get raises are removed.
Sweep(state) ==
    LET to_remove == { k \in DOMAIN state :
                          /\ k.kind = "query_id"
                          /\ state[k] \notin remote.queries }
    IN Restrict(state, (DOMAIN state) \ to_remove)

SweepCalls(state) ==
    LET ks == KeysInOrder({ k \in DOMAIN state : k.kind = "query_id" })
    IN [i \in 1..Len(ks) |->
          Call("load", "get", "query", ks[i].g, ks[i].n, state[ks[i]],
               IF state[ks[i]] \in remote.queries THEN "ok" ELSE "ERROR")]

Download(res) == Call("load", "download", "state", 0, 0, 0, res)
Mkdirs == Call("load", "mkdirs", "folder", 0, 0, 0, "ok")
GetStatus == Call("load", "get_status", "folder", 0, 0, 0, "ok")

\* _dashboard_data_source, with a warehouse configured: two listings.
DashboardDataSource ==
    << Call("load", "list", "data_sources", 0, 0, 0, "ok"),
       Call("load", "list", "warehouses", 0, 0, 0, "ok") >>

InstalledQueryState ==
    /\ pc = "load"
    /\ \/ /\ blob.kind = "json"
          /\ _state' = Sweep(blob.content)
          /\ log' = log \o <<Download("ok")>> \o SweepCalls(blob.content)
                        \o <<GetStatus>> \o DashboardDataSource
       \/ /\ blob.kind = "not_found"
          /\ _state' = _state
          /\ log' = log \o <<Download("RESOURCE_DOES_NOT_EXIST"), Mkdirs,
                             GetStatus>> \o DashboardDataSource
       \/ /\ blob.kind = "corrupt"
          /\ _state' = EmptyMap
          /\ log' = log \o <<Download("ok"), GetStatus>> \o DashboardDataSource
    /\ pc' = "dashboard"
    /\ UNCHANGED << _pos, blob, remote, nextId, local_folder, gi, qi,
                    dashboards, queries_per_dashboard, last, prev, start, runs,
                    faults, probe >>

\* The download raises a DatabricksError other than RESOURCE_DOES_NOT_EXIST.
InstalledQueryStateFails ==
    /\ pc = "load"
    /\ faults < MaxFaults
    /\ faults' = faults + 1
    /\ Raise("DatabricksError", "load", Append(log, Download("ERROR")))

\* ----------------------------------------------------- _install_dashboard
\* The widgets dashboards.get reports for a dashboard, in id order.
WidgetsOf(dashboard_id) ==
    SetToSeq({ w.id : w \in { x \in remote.widgets :
                                 x.dashboard_id = dashboard_id } })

\* Mutant: the widgets of a known dashboard are left in place.
InstallDashboard_KeepsWidgets ==
    /\ pc = "dashboard"
    /\ LET dashboard_id == dashboard_key(dashboard_ref)
       IN IF dashboard_id \in DOMAIN _state
          THEN /\ log' = Append(log,
                          Call("dashboard", "get", "dashboard", dashboard_ref,
                               0, _state[dashboard_id], "ok"))
               /\ UNCHANGED << _state, remote, nextId >>
          ELSE /\ log' = log \o
                    << Call("dashboard", "create", "dashboard", dashboard_ref,
                            0, nextId, "ok"),
                       Call("dashboard", "grant", "dashboard", dashboard_ref,
                            0, nextId, "ok") >>
               /\ remote' = [remote EXCEPT !.dashboards = @ \cup {nextId}]
               /\ _state' = Put(_state, dashboard_id, nextId)
               /\ nextId' = nextId + 1
    /\ pc' = IF Len(desired_queries) = 0 THEN "record" ELSE "query"
    /\ qi' = IF Len(desired_queries) = 0 THEN 0 ELSE 1
    /\ UNCHANGED << _pos, blob, local_folder, gi, dashboards,
                    queries_per_dashboard, last, prev, start, runs, faults,
                    probe >>

InstallDashboard ==
    /\ pc = "dashboard"
    /\ LET dashboard_id == dashboard_key(dashboard_ref)
       IN IF dashboard_id \in DOMAIN _state
          THEN LET ws == WidgetsOf(_state[dashboard_id])
               IN /\ log' = Append(log,
                          Call("dashboard", "get", "dashboard", dashboard_ref,
                               0, _state[dashboard_id], "ok")) \o
                       [i \in 1..Len(ws) |->
                          Call("dashboard", "delete", "widget", dashboard_ref,
                               0, ws[i], "ok")]
                  /\ remote' = [remote EXCEPT !.widgets =
                                  { w \in @ : w.dashboard_id
                                                # _state[dashboard_id] }]
                  /\ UNCHANGED << _state, nextId >>
          ELSE /\ log' = log \o
                    << Call("dashboard", "create", "dashboard", dashboard_ref,
                            0, nextId, "ok"),
                       Call("dashboard", "grant", "dashboard", dashboard_ref,
                            0, nextId, "ok") >>
               /\ remote' = [remote EXCEPT !.dashboards = @ \cup {nextId}]
               /\ _state' = Put(_state, dashboard_id, nextId)
               /\ nextId' = nextId + 1
    /\ pc' = IF Len(desired_queries) = 0 THEN "record" ELSE "query"
    /\ qi' = IF Len(desired_queries) = 0 THEN 0 ELSE 1
    /\ UNCHANGED << _pos, blob, local_folder, gi, dashboards,
                    queries_per_dashboard, last, prev, start, runs, faults,
                    probe >>

\* The first remote call of the step raises a DatabricksError.
InstallDashboardFails ==
    /\ pc = "dashboard"
    /\ faults < MaxFaults
    /\ faults' = faults + 1
    /\ LET dashboard_id == dashboard_key(dashboard_ref)
       IN Raise("DatabricksError", "dashboard",
                Append(log,
                  IF dashboard_id \in DOMAIN _state
                  THEN Call("dashboard", "get", "dashboard", dashboard_ref, 0,
                            _state[dashboard_id], "ERROR")
                  ELSE Call("dashboard", "create", "dashboard", dashboard_ref,
                            0, 0, "ERROR")))

\* dashboard_widgets.delete raises for one of the attached widgets: the
\* widgets before it are gone, the others stay.
InstallDashboardClearFails ==
    /\ pc = "dashboard"
    /\ faults < MaxFaults
    /\ dashboard_key(dashboard_ref) \in DOMAIN _state
    /\ LET dashboard_id == dashboard_key(dashboard_ref)
           ws == WidgetsOf(_state[dashboard_id])
       IN \E j \in 1..Len(ws) :
             /\ remote' = [remote EXCEPT !.widgets =
                             { w \in @ : \A i \in 1..(j - 1) : w.id # ws[i] }]
             /\ log' = Append(log,
                          Call("dashboard", "get", "dashboard", dashboard_ref,
                               0, _state[dashboard_id], "ok")) \o
                       [i \in 1..j |->
                          Call("dashboard", "delete", "widget", dashboard_ref,
                               0, ws[i], IF i < j THEN "ok" ELSE "ERROR")]
    /\ faults' = faults + 1
    /\ pc' = "idle"
    /\ last' = Ended("DatabricksError", "dashboard", _state, log')
    /\ UNCHANGED << _state, _pos, blob, nextId, local_folder, gi, qi,
                    dashboards, queries_per_dashboard, prev, start, runs,
                    probe >>

\* --------------------------------------------------------- _install_query
InstallQuery ==
    /\ pc = "query"
    /\ IF query_key(query) \in DOMAIN _state
       THEN /\ _state[query_key(query)] \in remote.queries
            /\ log' = Append(log,
                  Call("query", "update", "query", dashboard_ref, query.name,
                       _state[query_key(query)], "ok"))
            /\ UNCHANGED << _state, remote, nextId >>
       ELSE /\ log' = log \o
                 << Call("query", "create", "query", dashboard_ref, query.name,
                         nextId, "ok"),
                    Call("query", "grant", "query", dashboard_ref, query.name,
                         nextId, "ok") >>
            /\ remote' = [remote EXCEPT !.queries = @ \cup {nextId}]
            /\ _state' = Put(_state, query_key(query), nextId)
            /\ nextId' = nextId + 1
    /\ pc' = "viz"
    /\ UNCHANGED << _pos, blob, local_folder, gi, qi, dashboards,
                    queries_per_dashboard, last, prev, start, runs, faults,
                    probe >>

\* queries.update of a query that is gone, or an injected failure of the
\* first remote call of the step.
InstallQueryFails ==
    /\ pc = "query"
    /\ LET known == query_key(query) \in DOMAIN _state
           gone == known /\ _state[query_key(query)] \notin remote.queries
       IN /\ \/ gone /\ faults' = faults
             \/ ~gone /\ faults < MaxFaults /\ faults' = faults + 1
          /\ Raise("DatabricksError", "query",
                   Append(log,
                     Call("query", IF known THEN "update" ELSE "create",
                          "query", dashboard_ref, query.name,
                          IF known THEN _state[query_key(query)] ELSE 0,
                          "ERROR")))

\* ----------------------------------------------------------- _install_viz
InstallViz ==
    /\ pc = "viz"
    /\ get_viz_options(query) = "ok"
    /\ IF viz_key(query) \in DOMAIN _state
       THEN /\ log' = Append(log,
                  Call("viz", "update", "viz", dashboard_ref, query.name,
                       _state[viz_key(query)], "ok"))
            /\ UNCHANGED << _state, remote, nextId >>
       ELSE /\ log' = Append(log,
                  Call("viz", "create", "viz", dashboard_ref, query.name,
                       nextId, "ok"))
            /\ remote' = [remote EXCEPT !.vizs = @ \cup
                            { [id |-> nextId,
                               query_id |-> _state[query_key(query)]] }]
            /\ _state' = Put(_state, viz_key(query), nextId)
            /\ nextId' = nextId + 1
    /\ pc' = "widget"
    /\ UNCHANGED << _pos, blob, local_folder, gi, qi, dashboards,
                    queries_per_dashboard, last, prev, start, runs, faults,
                    probe >>

\* _get_viz_options raises: unknown viz type, or args that do not bind.
InstallVizDefinitionError ==
    /\ pc = "viz"
    /\ get_viz_options(query) # "ok"
    /\ faults' = faults
    /\ Raise(get_viz_options(query), "viz", log)

InstallVizFails ==
    /\ pc = "viz"
    /\ get_viz_options(query) = "ok"
    /\ faults < MaxFaults
    /\ faults' = faults + 1
    /\ LET known == viz_key(query) \in DOMAIN _state
       IN Raise("DatabricksError", "viz",
                Append(log,
                  Call("viz", IF known THEN "update" ELSE "create", "viz",
                       dashboard_ref, query.name,
                       IF known THEN _state[viz_key(query)] ELSE 0, "ERROR")))

\* -------------------------------------------------------- _install_widget
\* int() of an attribute value, a sequence of characters.
DigitValue(c) ==
    CASE c = "0" -> 0 [] c = "1" -> 1 [] c = "2" -> 2 [] c = "3" -> 3
      [] c = "4" -> 4 [] c = "5" -> 5 [] c = "6" -> 6 [] c = "7" -> 7
      [] c = "8" -> 8 [] c = "9" -> 9

IsInt(s) ==
    /\ Len(s) > 0
    /\ \A i \in 1..Len(s) :
          s[i] \in {"0", "1", "2", "3", "4", "5", "6", "7", "8", "9"}

RECURSIVE IntOf(_)
IntOf(s) ==
    IF Len(s) = 0 THEN 0
    ELSE IntOf(SubSeq(s, 1, Len(s) - 1)) * 10 + DigitValue(s[Len(s)])

\* _get_widget_options: "ok" when the options are built, else the exception
\* int() raises.
get_widget_options(q) ==
    IF \E a \in {"col", "row", "size_x", "size_y"} \cap DOMAIN q.widget :
          ~IsInt(q.widget[a])
    THEN "ValueError"
    ELSE "ok"

\* _get_widget_options: the row of the widget, after self._pos += 1.
widget_row(q, pos) ==
    IF "row" \in DOMAIN q.widget THEN IntOf(q.widget.row) ELSE pos

\* Mutant: the counter advances only for a widget that takes the default.
InstallWidget_CountsDefaults ==
    /\ pc = "widget"
    /\ get_widget_options(query) = "ok"
    /\ _pos' = IF "row" \in DOMAIN query.widget THEN _pos ELSE _pos + 1
    /\ log' = Append(log,
          Call("widget", "create", "widget", dashboard_ref, query.name, nextId,
               "ok"))
    /\ remote' = [remote EXCEPT !.widgets = @ \cup
                    { [id |-> nextId,
                       dashboard_id |-> _state[dashboard_key(dashboard_ref)],
                       visualization_id |-> _state[viz_key(query)],
                       row |-> widget_row(query, _pos')] }]
    /\ _state' = Put(_state, widget_key(query), nextId)
    /\ nextId' = nextId + 1
    /\ pc' = IF qi < Len(desired_queries) THEN "query" ELSE "record"
    /\ qi' = IF qi < Len(desired_queries) THEN qi + 1 ELSE qi
    /\ UNCHANGED << blob, local_folder, gi, dashboards, queries_per_dashboard,
                    last, prev, start, runs, faults, probe >>

InstallWidget ==
    /\ pc = "widget"
    /\ get_widget_options(query) = "ok"
    /\ _pos' = _pos + 1
    /\ log' = Append(log,
          Call("widget", "create", "widget", dashboard_ref, query.name, nextId,
               "ok"))
    /\ remote' = [remote EXCEPT !.widgets = @ \cup
                    { [id |-> nextId,
                       dashboard_id |-> _state[dashboard_key(dashboard_ref)],
                       visualization_id |-> _state[viz_key(query)],
                       row |-> widget_row(query, _pos')] }]
    /\ _state' = Put(_state, widget_key(query), nextId)
    /\ nextId' = nextId + 1
    /\ pc' = IF qi < Len(desired_queries) THEN "query" ELSE "record"
    /\ qi' = IF qi < Len(desired_queries) THEN qi + 1 ELSE qi
    /\ UNCHANGED << blob, local_folder, gi, dashboards, queries_per_dashboard,
                    last, prev, start, runs, faults, probe >>

InstallWidgetFails ==
    /\ pc = "widget"
    /\ faults < MaxFaults
    /\ faults' = faults + 1
    /\ pc' = "idle"
    /\ _pos' = _pos + 1
    /\ log' = Append(log,
          Call("widget", "create", "widget", dashboard_ref, query.name, 0,
               "ERROR"))
    /\ last' = Ended("DatabricksError", "widget", _state, log')
    /\ UNCHANGED << _state, blob, remote, nextId, local_folder, gi, qi,
                    dashboards, queries_per_dashboard, prev, start, runs,
                    probe >>

\* Mutant: the state is uploaded at the end of every folder.
RecordDashboard_Uploads ==
    /\ pc = "record"
    /\ queries_per_dashboard' =
          Put(queries_per_dashboard, dashboard_ref, desired_queries)
    /\ dashboards' =
          Put(dashboards, dashboard_ref, _state[dashboard_key(dashboard_ref)])
    /\ blob' = [kind |-> "json", content |-> _state]
    /\ log' = Append(log, Call("store", "upload", "state", 0, 0, 0, "ok"))
    /\ pc' = IF gi < Len(local_folder) THEN "load" ELSE "store"
    /\ gi' = IF gi < Len(local_folder) THEN gi + 1 ELSE gi
    /\ UNCHANGED << _state, _pos, remote, nextId, local_folder, qi, last, prev,
                    start, runs, faults, probe >>

\* create_dashboards, lines 129-130: the folder is done.
RecordDashboard ==
    /\ pc = "record"
    /\ queries_per_dashboard' =
          Put(queries_per_dashboard, dashboard_ref, desired_queries)
    /\ dashboards' =
          Put(dashboards, dashboard_ref, _state[dashboard_key(dashboard_ref)])
    /\ pc' = IF gi < Len(local_folder) THEN "load" ELSE "store"
    /\ gi' = IF gi < Len(local_folder) THEN gi + 1 ELSE gi
    /\ UNCHANGED << _state, _pos, blob, remote, nextId, local_folder, qi, log,
                    last, prev, start, runs, faults, probe >>

\* ----------------------------------------------------- _store_query_state
DesiredKeys(queries) ==
    UNION { {dashboard_key(ref)} \cup
            UNION { { query_key(queries[ref][i]), viz_key(queries[ref][i]),
                      widget_key(queries[ref][i]) }
                    : i \in 1..Len(queries[ref]) }
            : ref \in DOMAIN queries }

\* Mutant: dashboards have a destructor too.
destructors_WithDashboard == {"query_id", "viz_id", "widget_id", "dashboard_id"}
destructors == {"query_id", "viz_id", "widget_id"}

\* Mutant: only entries that have a destructor are ever dropped.
NewState_KeepDashboards(state, desired_keys) ==
    Restrict(state, desired_keys \cup
                    { k \in DOMAIN state : k.kind \notin destructors })

\* new_state: the entries that are kept and uploaded.
NewState(state, desired_keys) == Restrict(state, desired_keys)

\* Mutant: the widget destructor is missing.
Orphans_NoWidget(state, desired_keys) ==
    KeysInOrder({ k \in DOMAIN state :
                     k \notin desired_keys /\ k.kind \in {"query_id", "viz_id"} })

\* The entries a destructor is called for, in iteration order.
Orphans(state, desired_keys) ==
    KeysInOrder({ k \in DOMAIN state :
                     k \notin desired_keys /\ k.kind \in destructors })

KindOf(k) ==
    CASE k.kind = "query_id" -> "query"
      [] k.kind = "viz_id" -> "viz"
      [] k.kind = "widget_id" -> "widget"
      [] k.kind = "dashboard_id" -> "dashboard"

\* TRUE when the remote object an entry names exists.
Exists(k, id) ==
    CASE k.kind = "query_id" -> id \in remote.queries
      [] k.kind = "viz_id" -> \E v \in remote.vizs : v.id = id
      [] k.kind = "widget_id" -> \E w \in remote.widgets : w.id = id
      [] k.kind = "dashboard_id" -> id \in remote.dashboards

\* The result of the destructor call for entry k.
DeleteResult(state, k, failing) ==
    IF Exists(k, state[k]) /\ k # failing THEN "ok" ELSE "ERROR"

\* Mutant: the first destructor that raises ends the loop.
DeleteCalls_StopAtFailure(state, orphans, failing) ==
    LET bad == { i \in 1..Len(orphans) :
                    DeleteResult(state, orphans[i], failing) = "ERROR" }
        stop == IF bad = {} THEN Len(orphans)
                ELSE CHOOSE i \in bad : \A j \in bad : i <= j
    IN [i \in 1..stop |->
          Call("store", "delete", KindOf(orphans[i]), orphans[i].g,
               orphans[i].n, state[orphans[i]],
               DeleteResult(state, orphans[i], failing))]

\* The destructor calls of one save; the call for `failing` raises, and so
\* does the call for an object that is already gone.
DeleteCalls(state, orphans, failing) ==
    [i \in 1..Len(orphans) |->
       Call("store", "delete", KindOf(orphans[i]), orphans[i].g, orphans[i].n,
            state[orphans[i]], DeleteResult(state, orphans[i], failing))]

Upload == Call("store", "upload", "state", 0, 0, 0, "ok")

StoreQueryState ==
    /\ pc = "store"
    /\ LET desired_keys == DesiredKeys(queries_per_dashboard)
           orphans == Orphans(_state, desired_keys)
           live == { orphans[i] : i \in { j \in 1..Len(orphans) :
                                   Exists(orphans[j], _state[orphans[j]]) } }
       IN \E failing \in
               {dashboard_key(0)} \cup (IF faults < MaxFaults THEN live ELSE {}) :
             LET calls == DeleteCalls(_state, orphans, failing)
                 deleted == { calls[i].id : i \in { j \in 1..Len(calls) :
                                                      calls[j].res = "ok" } }
             IN /\ remote' =
                     [remote EXCEPT
                        !.queries = @ \ deleted,
                        !.vizs = { v \in @ : v.id \notin deleted },
                        !.widgets = { w \in @ : w.id \notin deleted }]
                /\ log' = log \o calls \o <<Upload>>
                /\ faults' = IF failing \in live THEN faults + 1 ELSE faults
                /\ blob' = [kind |-> "json",
                            content |-> NewState(_state, desired_keys)]
    /\ pc' = "idle"
    /\ last' = Ended("ok", "store", _state, log')
    /\ UNCHANGED << _state, _pos, nextId, local_folder, gi, qi, dashboards,
                    queries_per_dashboard, prev, start, runs, probe >>

\* ---------------------------------------------------------- specification
Next ==
    \/ Construct
    \/ ExternalDelete
    \/ CreateDashboards
    \/ InstalledQueryState
    \/ InstalledQueryStateFails
    \/ InstallDashboard
    \/ InstallDashboardFails
    \/ InstallDashboardClearFails
    \/ InstallQuery
    \/ InstallQueryFails
    \/ InstallViz
    \/ InstallVizDefinitionError
    \/ InstallVizFails
    \/ InstallWidget
    \/ InstallWidgetFails
    \/ RecordDashboard
    \/ StoreQueryState

Spec == Init /\ [][Next]_vars

\* ------------------------------------------------ validate, widget rows
\* In this part a file carries its two magic comments as written: a comment
\* is the set of its ", "-separated attributes, an attribute the sequence
\* split("=") makes of it (two parts when it reads key=value).
Comment(attrs) == { <<k, attrs[k]>> : k \in DOMAIN attrs }

\* _parse_magic_comment: dict() of the attributes; one that is not a pair
\* raises ValueError.
parse_magic_comment(comment) ==
    IF \A t \in comment : Len(t) = 2
    THEN [ok |-> TRUE,
          attrs |-> [k \in { t[1] : t \in comment } |->
                       (CHOOSE t \in comment : t[1] = k)[2]]]
    ELSE [ok |-> FALSE, attrs |-> EmptyMap]

\* A well-formed visualization comment for a file name.
VizOk(name) ==
    IF name % 2 = 1
    THEN [type |-> "table", name |-> "viz", columns |-> "a,b"]
    ELSE [type |-> "counter", name |-> "viz", value_column |-> "a"]

WidgetDefault == [title |-> "t"]

WidgetWithRow == [title |-> "t", row |-> <<"3">>]

\* Files with a well-formed visualization; those with an odd name may carry
\* an explicit widget row.
RowAttrs(name) ==
    [viz : {VizOk(name)},
     widget : IF name % 2 = 1 THEN {WidgetDefault, WidgetWithRow}
              ELSE {WidgetDefault}]

\* Files as validate may meet them: well-formed, or with one definition
\* error (odd names: unknown viz type, missing required argument, attribute
\* without "="; even names: unknown argument, row that is no integer).
RawAttrs(name) ==
    LET ok == [viz |-> Comment(VizOk(name)), widget |-> Comment(WidgetDefault)]
    IN IF name % 2 = 1
       THEN { ok,
              [ok EXCEPT !.viz = Comment([type |-> "pie", name |-> "viz"])],
              [ok EXCEPT !.viz = Comment([type |-> "table", name |-> "viz"])],
              [ok EXCEPT !.widget = @ \cup {<<"row">>}] }
       ELSE { ok,
              [ok EXCEPT !.viz = @ \cup {<<"colour", "red">>}],
              [ok EXCEPT !.widget = @ \cup {<<"row", <<"x">>>>}] }

RowContents ==
    UNION { { f \in [S -> UNION { RowAttrs(x) : x \in S }] :
                \A x \in S : f[x] \in RowAttrs(x) }
            : S \in SUBSET Names }

RawContents ==
    UNION { { f \in [S -> UNION { RawAttrs(x) : x \in S }] :
                \A x \in S : f[x] \in RawAttrs(x) }
            : S \in SUBSET Names }

\* The folder trees whose dashboard folders hold one of `contents` each.
Trees(contents) ==
    UNION { { [i \in 1..Cardinality(GS) |->
                 [ref |-> SetToSeq(GS)[i], files |-> f[SetToSeq(GS)[i]]]]
              : f \in [GS -> contents] }
            : GS \in SUBSET Groups }

RowFolders == Trees(RowContents)

RawFolders == Trees(RawContents)

\* _desired_queries over files as written: the queries, or the ValueError
\* of a comment that does not parse.
desired_queries_raw(ref, files) ==
    IF \A n \in DOMAIN files :
          /\ parse_magic_comment(files[n].viz).ok
          /\ parse_magic_comment(files[n].widget).ok
    THEN [ok |-> TRUE,
          queries |-> DesiredQueries(ref,
             [n \in DOMAIN files |->
                [viz |-> parse_magic_comment(files[n].viz).attrs,
                 widget |-> parse_magic_comment(files[n].widget).attrs]])]
    ELSE [ok |-> FALSE, queries |-> <<>>]

Outcome(status, name, cause, pos) ==
    [status |-> status, name |-> name, cause |-> cause, pos |-> pos]

\* validate, lines 142-148: the loop over the queries of one folder from
\* query j on, self._pos being pos.
RECURSIVE validate_queries(_, _, _)
validate_queries(qs, j, pos) ==
    IF j > Len(qs) THEN Outcome("valid", 0, "none", pos)
    ELSE IF get_viz_options(qs[j]) # "ok"
         THEN Outcome("AssertionError", qs[j].name, get_viz_options(qs[j]), pos)
    ELSE IF get_widget_options(qs[j]) # "ok"
         THEN Outcome("AssertionError", qs[j].name, get_widget_options(qs[j]),
                      pos + 1)
    ELSE validate_queries(qs, j + 1, pos + 1)

\* validate: the loop over the dashboard folders from folder i on.
RECURSIVE validate_folders(_, _, _)
validate_folders(f, i, pos) ==
    IF i > Len(f) THEN Outcome("valid", 0, "none", pos)
    ELSE LET dq == desired_queries_raw(f[i].ref, f[i].files)
         IN IF ~dq.ok THEN Outcome("ValueError", 0, "ValueError", pos)
            ELSE LET r == validate_queries(dq.queries, 1, pos)
                 IN IF r.status # "valid" THEN r
                    ELSE validate_folders(f, i + 1, r.pos)

\* How validate() ends over each tree, and how far it advances self._pos.
validate_outcomes ==
    { [tree |-> f, outcome |-> validate_folders(f, 1, 0)] : f \in RawFolders }

\* validate() over a folder tree: local_folder is the tree it read, last
\* how it ended (name: the query the AssertionError names, cause: the
\* exception it wraps).
Validate ==
    /\ pc = "idle"
    /\ runs < MaxRuns
    /\ \E v \in validate_outcomes :
          LET r == v.outcome
          IN /\ local_folder' = v.tree
             /\ _pos' = _pos + r.pos
             /\ last' = [status |-> r.status, at |-> "validate",
                         folders |-> <<>>, state |-> _state,
                         returned |-> EmptyMap, queries |-> EmptyMap,
                         log |-> <<>>, changed |-> last.changed,
                         name |-> r.name, cause |-> r.cause]
    /\ runs' = runs + 1
    /\ UNCHANGED << _state, blob, remote, nextId, pc, gi, qi, dashboards,
                    queries_per_dashboard, log, prev, start, faults, probe >>

CreateDashboardsRows == CreateDashboardsFrom(RowFolders)

NextRows ==
    \/ Validate
    \/ CreateDashboardsRows
    \/ InstalledQueryState
    \/ InstallDashboard
    \/ InstallQuery
    \/ InstallViz
    \/ InstallWidget
    \/ RecordDashboard
    \/ StoreQueryState

SpecRows == Init /\ [][NextRows]_vars

\* ------------------------------------------------- state keys as strings
\* In this part a name is a sequence of characters, and a state key is the
\* string the f-strings build.  Dots do not occur in the names drawn, so
\* Path.stem leaves them as they are.
MaxLen == 2         \* characters in a folder or file name

Chars == {"a", "A", "_", ":"}

JoinerChars == {"a", "_"}

Strings(C) == UNION { [1..n -> C] : n \in 1..MaxLen }

\* str.lower
lower(s) == [i \in 1..Len(s) |-> IF s[i] = "A" THEN "a" ELSE s[i]]

\* Path.stem: the name without its last suffix.
stem(s) ==
    LET dots == { i \in 2..(Len(s) - 1) : s[i] = "." }
    IN IF dots = {} THEN s
       ELSE SubSeq(s, 1, (CHOOSE i \in dots : \A j \in dots : j <= i) - 1)

\* Path.name of a query file.
FileName(base) == base \o <<".", "s", "q", "l">>

\* create_dashboards, line 119.
DashboardRef(step_folder, dashboard_folder) ==
    lower(stem(step_folder) \o <<"_">> \o stem(dashboard_folder))

kinds == {"dashboard_id", "query_id", "viz_id", "widget_id"}

\* f"{ref}:dashboard_id" and f"{dashboard_ref}_{name}:<kind>".
KeyString(ref, name, kind) ==
    IF kind = "dashboard_id" THEN ref \o <<":", kind>>
    ELSE ref \o <<"_">> \o name \o <<":", kind>>

\* str.split(sep)
RECURSIVE split(_, _)
split(s, sep) ==
    LET at == { i \in 1..Len(s) : s[i] = sep }
    IN IF at = {} THEN <<s>>
       ELSE LET i == CHOOSE x \in at : \A y \in at : x <= y
            IN <<SubSeq(s, 1, i - 1)>> \o split(SubSeq(s, i + 1, Len(s)), sep)

\* "_, name = k.split(':')": unpacking anything but two parts raises.
SplitKey(k) ==
    LET parts == split(k, ":")
    IN IF Len(parts) = 2
       THEN [res |-> "ok", ref |-> parts[1], name |-> parts[2]]
       ELSE [res |-> "ValueError", ref |-> <<>>, name |-> <<>>]

Item(step_folder, dashboard_folder, file) ==
    [step |-> step_folder, dashboard |-> dashboard_folder, file |-> file]

Items(C) == { Item(s, d, f) : s \in Strings(C), d \in Strings(C),
                              f \in Strings(C) }

\* One query file of one dashboard folder, or two of them side by side.
Probes ==
    { [stage |-> "names", items |-> <<a>>] : a \in Items(Chars) } \cup
    { [stage |-> "names", items |-> <<a, b>>] :
         a \in Items(JoinerChars), b \in Items(JoinerChars) }

InitKeys ==
    /\ probe \in Probes
    /\ _state = EmptyMap
    /\ _pos = 0
    /\ blob = [kind |-> "not_found", content |-> EmptyMap]
    /\ remote = [dashboards |-> {}, queries |-> {}, vizs |-> {}, widgets |-> {}]
    /\ nextId = 1
    /\ local_folder = <<>>
    /\ pc = "idle"
    /\ gi = 0
    /\ qi = 0
    /\ dashboards = EmptyMap
    /\ queries_per_dashboard = EmptyMap
    /\ log = <<>>
    /\ last = NoRun
    /\ prev = NoRun
    /\ start = [blob |-> blob, state |-> EmptyMap, pos |-> 0]
    /\ runs = 0
    /\ faults = 0

ProgramVars == << _state, _pos, blob, remote, nextId, local_folder, pc, gi, qi,
                  dashboards, queries_per_dashboard, log, last, prev, start,
                  runs, faults >>

\* The keys create_dashboards derives for the items.
DeriveKeys ==
    /\ probe.stage = "names"
    /\ probe' =
          [stage |-> "keys", items |-> probe.items,
           refs |-> [i \in DOMAIN probe.items |->
                       DashboardRef(probe.items[i].step,
                                    probe.items[i].dashboard)],
           keys |-> [i \in DOMAIN probe.items |->
                       [k \in kinds |->
                          KeyString(DashboardRef(probe.items[i].step,
                                                 probe.items[i].dashboard),
                                    FileName(probe.items[i].file), k)]]]
    /\ UNCHANGED ProgramVars

\* The decomposition of the keys in the load sweep and in the save filter.
SplitKeys ==
    /\ probe.stage = "keys"
    /\ probe' =
          [stage |-> "split", items |-> probe.items, refs |-> probe.refs,
           keys |-> probe.keys,
           parts |-> [i \in DOMAIN probe.items |->
                        [k \in kinds |-> SplitKey(probe.keys[i][k])]]]
    /\ UNCHANGED ProgramVars

NextKeys ==
    \/ DeriveKeys
    \/ SplitKeys

SpecKeys == InitKeys /\ [][NextKeys]_vars

\* =================================================================== claims
\* ------------------------------------------------------------ vocabulary
Proj(c) == [op |-> c.op, kind |-> c.kind, g |-> c.g, n |-> c.n]

\* The create / update / delete calls of a log, in order.
Mutations(l) ==
    LET m == SelectSeq(l, LAMBDA c : c.op \in {"create", "update", "delete"})
    IN [i \in 1..Len(m) |-> Proj(m[i])]

IsPrefix(a, b) == Len(a) <= Len(b) /\ \A i \in 1..Len(a) : a[i] = b[i]

Resource(j) == CASE j = 0 -> "query" [] j = 1 -> "viz" [] j = 2 -> "widget"

\* What a fresh install of one dashboard folder issues: the dashboard, then
\* per file, in file order, the query, the visualization and the widget.
FolderCreates(fd) ==
    LET nm == SetToSeq(DOMAIN fd.files)
    IN << [op |-> "create", kind |-> "dashboard", g |-> fd.ref, n |-> 0] >> \o
       [j \in 1..(3 * Len(nm)) |->
          [op |-> "create", kind |-> Resource((j - 1) % 3), g |-> fd.ref,
           n |-> nm[((j - 1) \div 3) + 1]]]

RECURSIVE TreeCreates(_)
TreeCreates(f) ==
    IF Len(f) = 0 THEN <<>> ELSE FolderCreates(Head(f)) \o TreeCreates(Tail(f))

\* The keys of a folder tree, from the files themselves.
KeysOfTree(f) ==
    UNION { { [g |-> f[i].ref, n |-> 0, kind |-> "dashboard_id"] } \cup
            { [g |-> f[i].ref, n |-> nm, kind |-> kd]
              : nm \in DOMAIN f[i].files, kd \in destructors }
            : i \in 1..Len(f) }

RunOk == pc = "idle" /\ last.status = "ok"

\* The run in progress, or the last one, began with nothing installed:
\* no state blob and an empty in-memory state.
FreshStart ==
    /\ runs > 0
    /\ start.blob.kind = "not_found"
    /\ start.state = EmptyMap

\* C3: fresh install. A run that starts from a not-found blob with nothing
\* in memory issues, in folder order and per folder in file order, one
\* dashboard create, then per file one query create, one visualization
\* create and one widget create, and no update or delete: at every moment
\* the calls issued are a prefix of that list, and a run that succeeds has
\* issued all of it.
C3_FreshInstall ==
    FreshStart =>
       /\ IsPrefix(Mutations(log), TreeCreates(local_folder))
       /\ RunOk => Mutations(log) = TreeCreates(local_folder)

C3_Witness ==
    /\ FreshStart
    /\ RunOk
    /\ Len(local_folder) = MaxGroups
    /\ \A i \in 1..Len(local_folder) : DOMAIN local_folder[i].files = Names

\* The identifier the remote service returned for the object created, or the
\* identifier passed to the update, for key k in log l (0 when there is none).
Touched(l, k) ==
    LET hit == { i \in 1..Len(l) :
                    /\ l[i].op \in {"create", "update"}
                    /\ l[i].res = "ok"
                    /\ l[i].kind = KindOf(k) /\ l[i].g = k.g /\ l[i].n = k.n }
    IN IF hit = {} THEN 0 ELSE l[CHOOSE i \in hit : TRUE].id

Refs(f) == { f[i].ref : i \in 1..Len(f) }

\* The run began right after a successful run over the same folder tree,
\* with nothing changed in the workspace in between.
SameAgain ==
    /\ runs >= 2
    /\ prev.status = "ok"
    /\ ~prev.changed
    /\ prev.folders = local_folder

\* C1 (as claimed): idempotence. In a run that repeats a successful run over
\* the same folder tree, no create call of any kind is issued, and after it
\* every dashboard_id, query_id and viz_id of the tree has the value it had
\* after the first run.
C1_Idempotent ==
    SameAgain =>
       /\ \A i \in 1..Len(log) : log[i].op # "create"
       /\ RunOk =>
             \A k \in KeysOfTree(local_folder) :
                k.kind # "widget_id" =>
                   /\ k \in DOMAIN prev.state
                   /\ k \in DOMAIN last.state
                   /\ last.state[k] = prev.state[k]

\* C4 (as claimed): corrupt state tolerance. A run that starts from an
\* undecodable blob ends as the same run from a not-found blob does: the
\* creates of a fresh install, every folder in the returned mapping, and a
\* persisted state that maps every key of the tree to the object created
\* for it.
FreshOutcome ==
    /\ Mutations(log) = TreeCreates(local_folder)
    /\ DOMAIN last.returned = Refs(local_folder)
    /\ blob.kind = "json"
    /\ DOMAIN blob.content = KeysOfTree(local_folder)
    /\ \A k \in DOMAIN blob.content : blob.content[k] = Touched(log, k)
    /\ \A r \in DOMAIN last.returned :
          last.returned[r] = Touched(log, dashboard_key(r))

\* What the comparison of C4 rests on: a successful run from a not-found
\* blob with nothing in memory ends in FreshOutcome.
NotFoundOutcome == (FreshStart /\ RunOk) => FreshOutcome

CorruptStart ==
    /\ runs > 0
    /\ start.blob.kind = "corrupt"
    /\ start.state = EmptyMap

C4_CorruptAsNotFound == (CorruptStart /\ RunOk) => FreshOutcome

\* C5 (as claimed): unknown viz kind rejection. When the run ends with the
\* definition error of a query, no query, permission, visualization or
\* widget call has been issued for that query.
C5_NoCallBeforeRejection ==
    (pc = "idle" /\ last.status = "SyntaxError") =>
       \A i \in 1..Len(log) :
          ~ ( /\ log[i].g = dashboard_ref
              /\ log[i].n = query.name
              /\ log[i].kind \in {"query", "viz", "widget"} )

\* C6 (as claimed): the state is loaded once and accumulates. After a
\* successful run the persisted state has every key of the folder tree, and
\* a key for which the run created or updated a remote object maps to that
\* object.
C6_StateAccumulates ==
    RunOk =>
       \A k \in KeysOfTree(local_folder) :
          /\ k \in DOMAIN blob.content
          /\ Touched(log, k) # 0 => blob.content[k] = Touched(log, k)

\* C7 (as claimed): produced surface. After a successful run every folder
\* ref is in the returned mapping, and its value is the identifier under
\* the ref's dashboard key in the in-memory state (what dashboard_link
\* reads) and in the persisted state.
C7_ProducedSurface ==
    RunOk =>
       \A r \in Refs(local_folder) :
          /\ r \in DOMAIN last.returned
          /\ dashboard_key(r) \in DOMAIN last.state
          /\ dashboard_link(last.state, r) = last.returned[r]
          /\ dashboard_key(r) \in DOMAIN blob.content
          /\ blob.content[dashboard_key(r)] = last.returned[r]

\* ------------------------------------------------------- orphan clean-up
\* The destructor calls of the save step of log l, as (kind, id) pairs.
StoreDeletes(l) ==
    { [kind |-> l[i].kind, id |-> l[i].id]
      : i \in { j \in 1..Len(l) : l[j].step = "store" /\ l[j].op = "delete" } }

\* The run is a successful re-run over one dashboard folder from which
\* exactly one file was removed since the successful run before it, the
\* workspace being otherwise unchanged.
OneQueryRemoved ==
    /\ RunOk
    /\ runs >= 2
    /\ prev.status = "ok"
    /\ ~prev.changed
    /\ Len(prev.folders) = 1
    /\ Len(local_folder) = 1
    /\ prev.folders[1].ref = local_folder[1].ref
    /\ \E r \in DOMAIN prev.folders[1].files :
          /\ DOMAIN local_folder[1].files = (DOMAIN prev.folders[1].files) \ {r}
          /\ \A x \in DOMAIN local_folder[1].files :
                local_folder[1].files[x] = prev.folders[1].files[x]

RemovedKeys ==
    { [g |-> local_folder[1].ref, n |-> r, kind |-> kd]
      : r \in (DOMAIN prev.folders[1].files) \ (DOMAIN local_folder[1].files),
        kd \in destructors }

\* What holds of the removed query, and of the dashboard, in C2.
RemovedIsCleaned ==
    /\ StoreDeletes(log) =
          { [kind |-> KindOf(k), id |-> start.blob.content[k]]
            : k \in RemovedKeys }
    /\ RemovedKeys \cap DOMAIN blob.content = {}
    /\ blob.content[dashboard_key(local_folder[1].ref)] =
          start.blob.content[dashboard_key(local_folder[1].ref)]

C8_SaveFilters ==
    RunOk =>
       /\ Cardinality({ i \in 1..Len(log) : log[i].op = "upload" }) = 1
       /\ blob.kind = "json"
       /\ DOMAIN blob.content = (DOMAIN last.state) \cap KeysOfTree(last.folders)
       /\ \A k \in DOMAIN blob.content : blob.content[k] = last.state[k]

\* A save that dropped an entry whose deletion failed, one whose deletion
\* succeeded and a dashboard entry, and kept others.
C8_Witness ==
    /\ RunOk
    /\ DOMAIN blob.content # {}
    /\ \E i, j \in 1..Len(log) :
          /\ log[i].step = "store" /\ log[i].op = "delete" /\ log[i].res = "ok"
          /\ log[j].step = "store" /\ log[j].op = "delete"
          /\ log[j].res = "ERROR"
    /\ \E k \in (DOMAIN last.state) \ DOMAIN blob.content :
          k.kind = "dashboard_id"

\* The keys of the in-memory state that are orphaned by folder tree f.
OrphanedBy(state, f) ==
    { k \in DOMAIN state : k \notin KeysOfTree(f) /\ k.kind # "dashboard_id" }

\* C9: best-effort orphan deletion. A run that reaches the save ends
\* without error even when a deletion fails; a delete call has been issued
\* for every orphaned query, viz and widget entry, and the upload follows
\* them.
C9_BestEffortDeletion ==
    (pc = "idle" /\ last.at = "store") =>
       /\ last.status = "ok"
       /\ StoreDeletes(log) =
             { [kind |-> KindOf(k), id |-> last.state[k]]
               : k \in OrphanedBy(last.state, last.folders) }
       /\ log[Len(log)] = Upload
       /\ blob.kind = "json"

\* A save in which a deletion failed and a later deletion was still tried.
C9_Witness ==
    /\ pc = "idle" /\ last.at = "store"
    /\ \E i, j \in 1..Len(log) :
          /\ i < j
          /\ log[i].step = "store" /\ log[i].op = "delete"
          /\ log[i].res = "ERROR"
          /\ log[j].step = "store" /\ log[j].op = "delete"

\* ------------------------------------------------------------- the load
\* The place of the latest download in log l (one exists once a load ran).
LastDownload(l) ==
    CHOOSE i \in 1..Len(l) :
       /\ l[i].op = "download"
       /\ \A j \in (i + 1)..Len(l) : l[j].op # "download"

\* C10 (as claimed): state load error handling. After a download that
\* failed with not-found the folder has been created and the state the run
\* goes on with is empty; a run that ends with any other download error has
\* issued no dashboard, query, visualization or widget call and no upload.
C10_LoadErrors ==
    /\ ( /\ pc = "dashboard"
         /\ log[LastDownload(log)] = Download("RESOURCE_DOES_NOT_EXIST") )
       => (log[LastDownload(log) + 1] = Mkdirs /\ _state = EmptyMap)
    /\ (pc = "idle" /\ last.at = "load") =>
          /\ last.status = "DatabricksError"
          /\ \A i \in 1..Len(log) :
                /\ log[i].kind \notin {"dashboard", "query", "viz", "widget"}
                /\ log[i].op # "upload"

\* ----------------------------------------------------------------- C13
\* C13: every derived key "r:k" splits on ':' into exactly the pair (r, k),
\* whatever characters the reference holds, so the load sweep and the save
\* filter never fail on a derived key.
C13_KeyRoundTrip ==
    probe.stage = "split" =>
        \A i \in DOMAIN probe.items : \A k \in kinds :
           /\ probe.parts[i][k].res = "ok"
           /\ probe.parts[i][k].name = <<k>>
           /\ probe.parts[i][k].ref \o <<":", k>> = probe.keys[i][k]

\* ----------------------------------------------------------------- C20
\* C20: two distinct folder pairs never derive the same dashboard key, and
\* two distinct (folder pair, file name) triples never derive the same
\* query, viz or widget key.
C20_KeysInjective ==
    (probe.stage = "keys" /\ Len(probe.items) = 2) =>
        LET a == probe.items[1]
            b == probe.items[2]
        IN /\ (<<a.step, a.dashboard>> # <<b.step, b.dashboard>>
                 => probe.keys[1]["dashboard_id"] # probe.keys[2]["dashboard_id"])
           /\ (a # b => \A k \in kinds \ {"dashboard_id"} :
                           probe.keys[1][k] # probe.keys[2][k])

\* ----------------------------------------------------------------- C15
\* The run ended with an exception.
Aborted == pc = "idle" /\ last.status \notin {"ok", "none"}

Uploads(l) == { i \in 1..Len(l) : l[i].op = "upload" }

\* C15: aborted runs never persist. While a run is under way, and after a
\* run that ended with an exception (a failed create or update of a
\* dashboard, query, visualization or widget, or a failed widget clearing),
\* the call log holds no orphan deletion and no upload and the persisted
\* blob is what it was when the run began; a log that holds an upload
\* belongs to a run that processed every folder of the tree.
C15_AbortedRunsNeverPersist ==
    /\ (runs > 0 /\ (pc # "idle" \/ Aborted)) =>
          /\ blob = start.blob
          /\ StoreDeletes(log) = {}
          /\ Uploads(log) = {}
    /\ (runs > 0 /\ Uploads(log) # {}) =>
          /\ RunOk
          /\ DOMAIN last.queries = Refs(local_folder)
          /\ Uploads(log) = {Len(log)}

\* A run that began with a state blob ended with a failed widget create
\* after it had changed the in-memory state.
C15_Witness ==
    /\ Aborted
    /\ last.status = "DatabricksError" /\ last.at = "widget"
    /\ start.blob.kind = "json"
    /\ last.state # start.state
    /\ last.state # start.blob.content

\* ----------------------------------------------------------------- C16
\* The calls a step appended to the log.
NewCalls == SubSeq(log', Len(log) + 1, Len(log'))

Attached(dashboard_id) ==
    { w.id : w \in { x \in remote.widgets : x.dashboard_id = dashboard_id } }

\* The dashboard step of a folder whose dashboard key is in the state:
\* no dashboard is created and no permission granted, the state is left
\* alone, every widget attached to the dashboard is deleted, none is left.
KnownDashboardStep ==
    (/\ pc = "dashboard" /\ pc' \in {"query", "record"}
     /\ dashboard_key(dashboard_ref) \in DOMAIN _state)
    => LET d == _state[dashboard_key(dashboard_ref)]
       IN /\ \A i \in 1..Len(NewCalls) :
                NewCalls[i].op \notin {"create", "grant"}
          /\ \A w \in Attached(d) :
                \E i \in 1..Len(NewCalls) :
                   /\ NewCalls[i].op = "delete" /\ NewCalls[i].kind = "widget"
                   /\ NewCalls[i].id = w /\ NewCalls[i].res = "ok"
          /\ { x \in remote'.widgets : x.dashboard_id = d } = {}
          /\ _state' = _state

WidgetCreates(l, ref) ==
    { l[i].id : i \in { j \in 1..Len(l) :
                          /\ l[j].step = "widget" /\ l[j].op = "create"
                          /\ l[j].res = "ok" /\ l[j].g = ref } }

\* After a successful run the widgets attached to the dashboard of every
\* processed folder are the ones the run created for it, one per file.
WidgetsRebuilt ==
    RunOk =>
       \A i \in 1..Len(local_folder) :
          LET ref == local_folder[i].ref
          IN /\ Attached(last.returned[ref]) = WidgetCreates(log, ref)
             /\ Cardinality(WidgetCreates(log, ref))
                  = Cardinality(DOMAIN local_folder[i].files)

\* C16: dashboard step. When "{ref}:dashboard_id" is in the state the run
\* creates no dashboard and grants no permission for the folder and deletes
\* every widget attached to that dashboard before the folder's first widget
\* create; after a successful run the widgets attached to the dashboard of
\* each processed folder are exactly those created in the run, one per
\* desired query.
C16_DashboardStep == [][KnownDashboardStep]_vars /\ []WidgetsRebuilt

\* A successful run cleared the widgets of a known dashboard and created
\* new ones on it.
C16_Witness ==
    /\ RunOk
    /\ \E i, j \in 1..Len(log) :
          /\ i < j
          /\ log[i].step = "dashboard" /\ log[i].op = "delete"
          /\ log[j].step = "widget" /\ log[j].op = "create"
          /\ log[j].g = log[i].g

\* ----------------------------------------------------------------- C17
\* The query_id entries of a state whose query is gone from the workspace.
Dead(state) ==
    { k \in DOMAIN state : k.kind = "query_id" /\ state[k] \notin remote.queries }

QueryCalls(l, op, k) ==
    { i \in 1..Len(l) : /\ l[i].step = "query" /\ l[i].op = op
                        /\ l[i].g = k.g /\ l[i].n = k.n }

\* C17: liveness sweep on load. Right after the load of a state blob the
\* in-memory state is the blob without the query_id entries whose query is
\* gone, every other entry unchanged, and the run has not ended; a
\* successful run has created, and not updated, a query for every desired
\* definition whose entry the sweep removed (and updated the others that
\* the blob held).
C17_LivenessSweep ==
    /\ (pc = "dashboard" /\ blob.kind = "json") =>
          /\ DOMAIN _state = (DOMAIN blob.content) \ Dead(blob.content)
          /\ \A k \in DOMAIN _state : _state[k] = blob.content[k]
    /\ (RunOk /\ ~last.changed /\ start.blob.kind = "json") =>
          \A k \in KeysOfTree(local_folder) \cap DOMAIN start.blob.content :
             k.kind = "query_id" =>
                IF k \in Dead(start.blob.content)
                THEN /\ \E i \in QueryCalls(log, "create", k) :
                           log[i].res = "ok"
                     /\ QueryCalls(log, "update", k) = {}
                ELSE /\ QueryCalls(log, "update", k) # {}
                     /\ QueryCalls(log, "create", k) = {}

\* A successful run created a query for a definition whose recorded query
\* had been deleted in the workspace, and updated another one.
C17_Witness ==
    /\ RunOk /\ ~last.changed /\ start.blob.kind = "json"
    /\ \E k \in KeysOfTree(local_folder) \cap Dead(start.blob.content) :
          QueryCalls(log, "create", k) # {}
    /\ \E k \in KeysOfTree(local_folder) \cap DOMAIN start.blob.content :
          k.kind = "query_id" /\ QueryCalls(log, "update", k) # {}

\* ----------------------------------------------------------------- C18
\* The dashboard folders of the run before that are not in the tree now.
Disappeared == Refs(prev.folders) \ Refs(local_folder)

StoreCalls(l) == { i \in 1..Len(l) : l[i].step = "store" /\ l[i].op = "delete" }

\* C18: stale dashboards are never deleted remotely. No call ever deletes a
\* dashboard.  When a folder is gone from the tree of a successful re-run,
\* the save has called a destructor for each of the folder's query, viz and
\* widget entries it held and for no dashboard entry; the folder's
\* dashboard_id entry is gone from the persisted state, no call of the run
\* names that dashboard, and the remote dashboard still exists.  When the
\* state was loaded in the re-run, every destructor call is for an entry of
\* something that left the tree.
C18_DashboardsNeverDeleted ==
    /\ \A i \in 1..Len(log) :
          ~(log[i].op = "delete" /\ log[i].kind = "dashboard")
    /\ (RunOk /\ prev.status = "ok") =>
          /\ \A g \in Disappeared :
                /\ \A k \in DOMAIN last.state :
                      (k.g = g /\ k.kind # "dashboard_id") =>
                         \E i \in StoreCalls(log) :
                            /\ log[i].kind = KindOf(k)
                            /\ log[i].id = last.state[k]
                /\ dashboard_key(g) \notin DOMAIN blob.content
                /\ dashboard_key(g) \in DOMAIN start.blob.content =>
                      /\ start.blob.content[dashboard_key(g)]
                            \in remote.dashboards
                      /\ \A i \in 1..Len(log) :
                            ~(/\ log[i].kind = "dashboard"
                              /\ log[i].id
                                   = start.blob.content[dashboard_key(g)])
          /\ Len(local_folder) > 0 =>
                \A i \in StoreCalls(log) :
                   \E k \in KeysOfTree(prev.folders) \ KeysOfTree(local_folder) :
                      /\ k.g = log[i].g /\ k.n = log[i].n
                      /\ KindOf(k) = log[i].kind

\* A successful re-run without a folder the run before had installed: its
\* query was deleted, its dashboard entry was in the blob before.
C18_Witness ==
    /\ RunOk /\ prev.status = "ok"
    /\ \E g \in Disappeared :
          /\ dashboard_key(g) \in DOMAIN start.blob.content
          /\ \E i \in StoreCalls(log) :
                log[i].g = g /\ log[i].kind = "query" /\ log[i].res = "ok"

\* ----------------------------------------------------------------- C19
\* C19: referential consistency of visualizations. After a successful run,
\* for every desired query definition, the visualization stored under its
\* viz_key belongs to the query stored under its query_key.
C19_VizOnStoredQuery ==
    RunOk =>
       \A r \in DOMAIN last.queries : \A i \in 1..Len(last.queries[r]) :
          LET q == last.queries[r][i]
          IN (viz_key(q) \in DOMAIN last.state
                /\ query_key(q) \in DOMAIN last.state) =>
                \E v \in remote.vizs :
                   /\ v.id = last.state[viz_key(q)]
                   /\ v.query_id = last.state[query_key(q)]

\* ----------------------------------------------------------------- C11
\* The places of the successful widget creates in a log, in order.
WidgetCalls(l) ==
    SelectSeq([i \in 1..Len(l) |-> i],
              LAMBDA i : /\ l[i].step = "widget" /\ l[i].op = "create"
                         /\ l[i].res = "ok")

\* The file a call was made for.
FileOf(c) ==
    (CHOOSE fd \in { local_folder[i] : i \in 1..Len(local_folder) } :
        fd.ref = c.g).files[c.n]

TakesDefault(c) == "row" \notin DOMAIN FileOf(c).widget

\* The row of the widget a call created.
RowOf(c) == (CHOOSE w \in remote.widgets : w.id = c.id).row

\* A run is under way or has ended well, and the log is its log.
InRun == pc # "idle" \/ last.status = "ok"

\* The run is the first call made on the instance.
FirstCall == prev.status = "none"

\* C11 (as claimed): widget position default. In a run of a new instance
\* the definitions without an explicit row get, in processing order, the
\* values 1, 2, 3, ... of a counter that advances only for them: the k-th
\* of them gets row k.
C11_DefaultRowsCountDefaults ==
    (InRun /\ FirstCall) =>
       LET w == WidgetCalls(log)
       IN \A m \in 1..Len(w) :
             TakesDefault(log[w[m]]) =>
                RowOf(log[w[m]])
                  = Cardinality({ j \in 1..m : TakesDefault(log[w[j]]) })

\* C11 (amended): the counter advances for every definition processed, with
\* or without an explicit row, and is not reset between folders: the m-th
\* definition a run processes gets, if it takes the default, the counter's
\* value at the start of the run plus m (so the defaults are strictly
\* increasing), an explicit row is taken as written, and on an instance
\* that has neither run nor validated before the counter starts at 0.
C11_DefaultRowsCountAll ==
    InRun =>
       LET w == WidgetCalls(log)
       IN /\ \A m \in 1..Len(w) :
                RowOf(log[w[m]]) = IF TakesDefault(log[w[m]])
                                   THEN start.pos + m
                                   ELSE IntOf(FileOf(log[w[m]]).widget.row)
          /\ _pos = start.pos + Len(w)
          /\ FirstCall => start.pos = 0

\* A successful run over two folders in which a widget with an explicit row
\* came before a widget of the other folder that took the default.
C11_Witness ==
    /\ InRun /\ RunOk
    /\ LET w == WidgetCalls(log)
       IN \E a, b \in 1..Len(w) :
             /\ a < b
             /\ ~TakesDefault(log[w[a]])
             /\ TakesDefault(log[w[b]])
             /\ log[w[a]].g # log[w[b]].g

\* ----------------------------------------------------------------- C12
\* C12: runs are independent of earlier runs in the same process. The rows
\* a run gives to the definitions that take the default are those a run of
\* a new instance over the same tree gives them, whatever validate() or
\* create_dashboards() call came before: the m-th definition processed
\* gets row m.
C12_RunsIndependent ==
    InRun =>
       LET w == WidgetCalls(log)
       IN \A m \in 1..Len(w) :
             TakesDefault(log[w[m]]) => RowOf(log[w[m]]) = m

\* ----------------------------------------------------------------- C14
\* The files of a tree in enumeration order.
RECURSIVE FilesInOrder(_)
FilesInOrder(f) ==
    IF Len(f) = 0 THEN <<>>
    ELSE LET nm == SetToSeq(DOMAIN Head(f).files)
         IN [j \in 1..Len(nm) |-> [name |-> nm[j], file |-> Head(f).files[nm[j]]]]
            \o FilesInOrder(Tail(f))

\* A file with a definition error: a comment with a malformed attribute, an
\* unknown viz type, arguments the builder does not bind, a row that is no
\* integer.
HasDefinitionError(file) ==
    \/ ~parse_magic_comment(file.viz).ok
    \/ ~parse_magic_comment(file.widget).ok
    \/ LET q == SimpleQuery(0, 0, parse_magic_comment(file.viz).attrs,
                            parse_magic_comment(file.widget).attrs)
       IN get_viz_options(q) # "ok" \/ get_widget_options(q) # "ok"

Validated == pc = "idle" /\ last.at = "validate"

\* C14: validation mode. validate() fails exactly when some definition has
\* a definition error, and then with an AssertionError that names the first
\* such definition in enumeration order.
C14_ValidateNamesFirstError ==
    Validated =>
       LET fs == FilesInOrder(local_folder)
           bad == { j \in 1..Len(fs) : HasDefinitionError(fs[j].file) }
       IN IF bad = {} THEN last.status = "valid"
          ELSE /\ last.status = "AssertionError"
               /\ last.name = fs[CHOOSE j \in bad : \A i \in bad : j <= i].name

\* validate() is a dry run: a validate step issues no call and leaves the
\* state, the blob and the workspace as they are.
ValidateIsDryRun ==
    [][(pc = "idle" /\ pc' = "idle" /\ runs' # runs)
         => UNCHANGED << _state, blob, remote, nextId, log >>]_vars
====
